---- MODULE Spec2Model ----
(***************************************************************************)
(* Model of the Nexacro license requester: the three-step workflow of      *)
(* NexacroLicenseRequester.request_license over one SessionManager, the    *)
(* response classification of SessionManager, and the exception dispatch   *)
(* of the orchestrator.                                                    *)
(*                                                                         *)
(* Text is a sequence of one-character strings, so that str.upper() and    *)
(* the substring test `in` are computed rather than assumed.  The HTTP     *)
(* library is the environment: every call either raises one of the         *)
(* exception classes of Raises or returns a response (status, text,        *)
(* cookies) chosen nondeterministically.                                   *)
(***************************************************************************)
EXTENDS Integers, Sequences, FiniteSets, TLC

VARIABLES
    config,     \* the Config held by the requester (self.config)
    pc,         \* position of request_license
    session,    \* the requests.Session of the current SessionManager
    exc,        \* the exception propagating out of the with-block, or NoExc
    calls,      \* this run's HTTP calls and session.close(), in order
    resp,       \* this run's outcome of each HTTP call, by step
    result,     \* the value request_license returned: "none", TRUE, FALSE
    summary,    \* the summaries _log_request_summary emitted in this run
    path,       \* the positions this run of request_license went through
    wire,       \* the HTTP requests of this run as they were sent, in order
    served,     \* the response bodies the portal may answer with
    logger,     \* the process-wide logger "NexacroLicenseRequester"
    current,    \* the requester whose run the variables above describe; in
                \* SpecRepeat the number of calls of request_license so far
    other,      \* the run of the second requester while it is not running;
                \* in SpecRepeat the call before the present one
    env,        \* os.environ
    mainpc,     \* position of main(), of Config.from_env / validate
    raised,     \* the exception raised to main(), or NoExc
    exit_code,  \* the value main() returned, or "none"
    xml_body,   \* the body _build_login_xml built, or <<>>
    setup       \* position of every constructor's call of _setup_logger

\* what a run of request_license reads and writes
run == <<config, pc, session, exc, calls, resp, result, summary, path, wire>>

\* what it leaves alone
aux == <<served, logger, current, other, env, mainpc, raised, exit_code, xml_body,
        setup>>

vars == <<run, aux>>

----------------------------------------------------------------------------
\* Bounds of the model

\* A response body is a concatenation of at most MaxWords words of Words.
MaxWords == 2

----------------------------------------------------------------------------
\* Text: str.upper() and the `in` operator on str

SUCCESS == <<"S", "U", "C", "C", "E", "S", "S">>
FAIL == <<"F", "A", "I", "L">>

Words ==
    { SUCCESS,
      <<"S", "u", "c", "c">>,
      <<"e", "s", "s">>,
      FAIL,
      <<"f", "a", "i", "l">> }

RECURSIVE Texts(_)
Texts(n) ==
    IF n = 0 THEN {<<>>}
    ELSE Texts(n - 1) \cup {t \o w : t \in Texts(n - 1), w \in Words}

Bodies == Texts(MaxWords)

upper_char(c) ==
    CASE c = "a" -> "A"
      [] c = "c" -> "C"
      [] c = "e" -> "E"
      [] c = "f" -> "F"
      [] c = "i" -> "I"
      [] c = "l" -> "L"
      [] c = "s" -> "S"
      [] c = "u" -> "U"
      [] OTHER -> c

upper(s) == [i \in 1 .. Len(s) |-> upper_char(s[i])]

\* needle in text
Contains(needle, text) ==
    \E i \in 0 .. (Len(text) - Len(needle)) :
        SubSeq(text, i + 1, i + Len(needle)) = needle

----------------------------------------------------------------------------
\* Config (dataclass defaults)

homepage_url == "https://support.tobesoft.co.kr/Support/?menu=home"
login_url ==
    "https://support.tobesoft.co.kr/Next_JSP/CS-Homepage/Next_JSP/Login/Login_new.jsp"
license_url == "https://next.tobesoft.com/FrontControllerServlet.do"
request_timeout == 30
max_retries == 3

\* the values of Config.max_retries the model starts from: retries switched
\* off, a single retry, and the dataclass default
RetryChoices == {0, 1, max_retries}

Config(retries) ==
    [ user_id |-> <<"t", "e", "s", "t", "_", "u", "s", "e", "r">>,
      user_pass |-> <<"t", "e", "s", "t", "_", "p", "a", "s", "s">>,
      customer_id |-> <<"t", "e", "s", "t", "_", "u", "s", "e", "r">>,
      email |-> <<"t", "e", "s", "t", "@", "e", "x", "a", "m", "p", "l", "e", ".", "c", "o", "m">>,
      homepage_url |-> homepage_url,
      login_url |-> login_url,
      license_url |-> license_url,
      request_timeout |-> request_timeout,
      max_retries |-> retries ]

----------------------------------------------------------------------------
\* Exceptions

\* the classes an instance of cls is an instance of (cls and its bases)
Bases(cls) ==
    CASE cls = "ConnectTimeout" ->
            {"ConnectTimeout", "ConnectionError", "Timeout", "RequestException",
             "Exception"}
      [] cls = "ReadTimeout" ->
            {"ReadTimeout", "Timeout", "RequestException", "Exception"}
      [] cls = "ConnectionError" ->
            {"ConnectionError", "RequestException", "Exception"}
      [] cls = "HTTPError" -> {"HTTPError", "RequestException", "Exception"}
      [] cls = "TooManyRedirects" ->
            {"TooManyRedirects", "RequestException", "Exception"}
      [] cls = "NetworkError" -> {"NetworkError", "NexacroError", "Exception"}
      [] cls = "AuthenticationError" ->
            {"AuthenticationError", "NexacroError", "Exception"}
      [] cls = "LicenseRequestError" ->
            {"LicenseRequestError", "NexacroError", "Exception"}
      [] cls = "ValueError" -> {"ValueError", "Exception"}
      [] cls = "OSError" -> {"OSError", "Exception"}
      [] OTHER -> {cls}

isinstance(e, cls) == cls \in Bases(e.cls)

NoExc == [cls |-> "none", msg |-> <<>>]
Raise(cls, msg) == [cls |-> cls, msg |-> msg]

----------------------------------------------------------------------------
\* The HTTP library: what session.get / session.post can do

\* exception classes a call can raise: both timeouts, a refused connection,
\* a requests exception that is none of Timeout, ConnectionError, HTTPError,
\* and a plain Exception
Raises ==
    {"ConnectTimeout", "ReadTimeout", "ConnectionError", "TooManyRedirects",
     "Exception"}

Statuses == {200, 500}
CookieJars == {{}, {"JSESSIONID"}}

Raised(cls) ==
    [kind |-> "raise", cls |-> cls, status |-> 0, text |-> <<>>, cookies |-> {}]
Response(status, text, cookies) ==
    [kind |-> "response", cls |-> "none", status |-> status, text |-> text,
     cookies |-> cookies]
NoCall == [kind |-> "none", cls |-> "none", status |-> 0, text |-> <<>>, cookies |-> {}]

HomepageOutcomes ==
    {Raised(c) : c \in Raises}
        \cup {Response(s, <<>>, j) : s \in Statuses, j \in CookieJars}

BodyOutcomes ==
    {Raised(c) : c \in Raises}
        \cup {Response(s, t, {}) : s \in Statuses, t \in served}

\* response.raise_for_status() raises HTTPError
raise_for_status(r) == r.status >= 400 /\ r.status < 600

----------------------------------------------------------------------------
\* SessionManager

\* the try block of establish_session on outcome o of session.get:
\* the exception raised in it, or NoExc when it returns the cookies
establish_session_try(cfg, o) ==
    IF o.kind = "raise" THEN Raise(o.cls, <<"transport">>)
    ELSE IF raise_for_status(o) THEN Raise("HTTPError", <<"status error">>)
    ELSE NoExc

\* establish_session without the `except requests.exceptions.Timeout`
establish_session_except_no_timeout(cfg, e) ==
    IF e = NoExc THEN NoExc
    ELSE IF isinstance(e, "ConnectionError")
        THEN Raise("NetworkError", <<"Connection failed: ", cfg.homepage_url>>)
    ELSE IF isinstance(e, "HTTPError")
        THEN Raise("NetworkError", <<"HTTP error: ">> \o e.msg)
    ELSE e

\* the except clauses of establish_session, in order; an exception none of
\* them names propagates unchanged
establish_session_except(cfg, e) ==
    IF e = NoExc THEN NoExc
    ELSE IF isinstance(e, "Timeout")
        THEN Raise("NetworkError", <<"Request timeout: ", cfg.homepage_url>>)
    ELSE IF isinstance(e, "ConnectionError")
        THEN Raise("NetworkError", <<"Connection failed: ", cfg.homepage_url>>)
    ELSE IF isinstance(e, "HTTPError")
        THEN Raise("NetworkError", <<"HTTP error: ">> \o e.msg)
    ELSE e

establish_session(cfg, o) == establish_session_except(cfg, establish_session_try(cfg, o))

\* login looking at the body before response.raise_for_status()
login_try_body_first(cfg, o) ==
    IF o.kind = "raise" THEN Raise(o.cls, <<"transport">>)
    ELSE IF Contains(SUCCESS, upper(o.text)) THEN NoExc
    ELSE IF raise_for_status(o) THEN Raise("HTTPError", <<"status error">>)
    ELSE Raise("AuthenticationError",
               <<"Login failed: Invalid credentials or response">>)

\* login searching the body as received, without upper()
login_try_case_sensitive(cfg, o) ==
    IF o.kind = "raise" THEN Raise(o.cls, <<"transport">>)
    ELSE IF raise_for_status(o) THEN Raise("HTTPError", <<"status error">>)
    ELSE IF Contains(SUCCESS, o.text) THEN NoExc
    ELSE Raise("AuthenticationError",
               <<"Login failed: Invalid credentials or response">>)

\* login classifying the body as request_license_email does, "FAIL" first
login_try_fail_first(cfg, o) ==
    IF o.kind = "raise" THEN Raise(o.cls, <<"transport">>)
    ELSE IF raise_for_status(o) THEN Raise("HTTPError", <<"status error">>)
    ELSE IF Contains(FAIL, upper(o.text))
        THEN Raise("AuthenticationError",
                   <<"Login failed: Invalid credentials or response">>)
    ELSE IF Contains(SUCCESS, upper(o.text)) THEN NoExc
    ELSE Raise("AuthenticationError",
               <<"Login failed: Invalid credentials or response">>)

\* the try block of login on outcome o of session.post
login_try(cfg, o) ==
    IF o.kind = "raise" THEN Raise(o.cls, <<"transport">>)
    ELSE IF raise_for_status(o) THEN Raise("HTTPError", <<"status error">>)
    ELSE IF Contains(SUCCESS, upper(o.text)) THEN NoExc
    ELSE Raise("AuthenticationError",
               <<"Login failed: Invalid credentials or response">>)

login_except(cfg, e) ==
    IF e = NoExc THEN NoExc
    ELSE IF isinstance(e, "Timeout")
        THEN Raise("NetworkError", <<"Request timeout during login">>)
    ELSE IF isinstance(e, "ConnectionError")
        THEN Raise("NetworkError", <<"Connection failed during login">>)
    ELSE IF isinstance(e, "HTTPError")
        THEN Raise("NetworkError", <<"HTTP error during login: ">> \o e.msg)
    ELSE e

login(cfg, o) == login_except(cfg, login_try(cfg, o))

\* request_license_email searching "FAIL" in the body as received
request_license_email_try_fail_as_received(cfg, o) ==
    IF o.kind = "raise" THEN Raise(o.cls, <<"transport">>)
    ELSE IF raise_for_status(o) THEN Raise("HTTPError", <<"status error">>)
    ELSE IF Contains(FAIL, o.text)
        THEN Raise("LicenseRequestError", <<"License request failed">>)
    ELSE IF Contains(SUCCESS, upper(o.text)) THEN NoExc
    ELSE Raise("LicenseRequestError",
               <<"License request failed", ": ", "Unknown response">>)

\* request_license_email testing "SUCCESS" before "FAIL"
request_license_email_try_success_first(cfg, o) ==
    IF o.kind = "raise" THEN Raise(o.cls, <<"transport">>)
    ELSE IF raise_for_status(o) THEN Raise("HTTPError", <<"status error">>)
    ELSE IF Contains(SUCCESS, upper(o.text)) THEN NoExc
    ELSE IF Contains(FAIL, upper(o.text))
        THEN Raise("LicenseRequestError", <<"License request failed">>)
    ELSE Raise("LicenseRequestError",
               <<"License request failed", ": ", "Unknown response">>)

\* request_license_email reporting every rejected body the same way
request_license_email_try_one_message(cfg, o) ==
    IF o.kind = "raise" THEN Raise(o.cls, <<"transport">>)
    ELSE IF raise_for_status(o) THEN Raise("HTTPError", <<"status error">>)
    ELSE IF Contains(FAIL, upper(o.text))
        THEN Raise("LicenseRequestError", <<"License request failed">>)
    ELSE IF Contains(SUCCESS, upper(o.text)) THEN NoExc
    ELSE Raise("LicenseRequestError", <<"License request failed">>)

\* the try block of request_license_email on outcome o of session.get
request_license_email_try(cfg, o) ==
    IF o.kind = "raise" THEN Raise(o.cls, <<"transport">>)
    ELSE IF raise_for_status(o) THEN Raise("HTTPError", <<"status error">>)
    ELSE IF Contains(FAIL, upper(o.text))
        THEN Raise("LicenseRequestError", <<"License request failed">>)
    ELSE IF Contains(SUCCESS, upper(o.text)) THEN NoExc
    ELSE Raise("LicenseRequestError",
               <<"License request failed", ": ", "Unknown response">>)

request_license_email_except(cfg, e) ==
    IF e = NoExc THEN NoExc
    ELSE IF isinstance(e, "Timeout")
        THEN Raise("NetworkError", <<"Request timeout during license request">>)
    ELSE IF isinstance(e, "ConnectionError")
        THEN Raise("NetworkError", <<"Connection failed during license request">>)
    ELSE IF isinstance(e, "HTTPError")
        THEN Raise("NetworkError", <<"HTTP error during license request: ">> \o e.msg)
    ELSE e

request_license_email(cfg, o) ==
    request_license_email_except(cfg, request_license_email_try(cfg, o))

\* the template before the first inserted value, tag by tag (white space
\* between tags left out)
login_xml_head ==
    << "<?xml version=\"1.0\" encoding=\"UTF-8\"?>",
       "<Root xmlns=\"http://www.nexacroplatform.com/platform/dataset\">",
       "<Parameters>",
       "<Parameter id=\"RTYPE\">", "XML", "</Parameter>",
       "<Parameter id=\"DB\">", "CS", "</Parameter>",
       "<Parameter id=\"DBUSER\">", "POTAL_USER", "</Parameter>",
       "</Parameters>",
       "<Dataset id=\"input\">",
       "<ColumnInfo>",
       "<Column id=\"userId\" type=\"STRING\" size=\"256\" />",
       "<Column id=\"userPass\" type=\"STRING\" size=\"256\" />",
       "</ColumnInfo>",
       "<Rows>", "<Row>",
       "<Col id=\"userId\">" >>

login_xml_between == <<"</Col>", "<Col id=\"userPass\">">>

login_xml_tail == <<"</Col>", "</Row>", "</Rows>", "</Dataset>", "</Root>">>

\* the f-string: the template with self.config.user_id and
\* self.config.user_pass put in character by character, as they are
_build_login_xml(cfg) ==
    login_xml_head \o cfg.user_id \o login_xml_between \o cfg.user_pass
        \o login_xml_tail

\* _build_license_params sending the user id as p_CustomID
_build_license_params_user_id(cfg) ==
    { <<"service", "xupservice">>,
      <<"domain", "NEXTp">>,
      <<"model", "CE_LicenseEMailSend_R01">>,
      <<"format", "xml">>,
      <<"version", "xplatform">>,
      <<"p_ConType", "TECH2">>,
      <<"p_Product", "NP14">>,
      <<"p_Language", "KOR">>,
      <<"p_CustomID", cfg.user_id>>,
      <<"p_Email", cfg.email>>,
      <<"p_Merge", "N">>,
      <<"zip", "false">> }

\* _build_license_params: the query parameters, as (name, value) pairs
_build_license_params(cfg) ==
    { <<"service", "xupservice">>,
      <<"domain", "NEXTp">>,
      <<"model", "CE_LicenseEMailSend_R01">>,
      <<"format", "xml">>,
      <<"version", "xplatform">>,
      <<"p_ConType", "TECH2">>,
      <<"p_Product", "NP14">>,
      <<"p_Language", "KOR">>,
      <<"p_CustomID", cfg.customer_id>>,
      <<"p_Email", cfg.email>>,
      <<"p_Merge", "N">>,
      <<"zip", "false">> }

\* the headers SessionManager.__init__ puts on its session
session_headers ==
    { <<"User-Agent",
        "Mozilla/5.0 (Macintosh; Intel Mac OS X 10_15_7) AppleWebKit/537.36">> }

\* self.session.get(self.config.homepage_url, timeout=...)
establish_session_request(cfg) ==
    [ method |-> "GET", url |-> cfg.homepage_url, params |-> {},
      headers |-> session_headers, data |-> <<>>,
      timeout |-> cfg.request_timeout ]

\* self.session.post(self.config.login_url, data=xml_body, headers=...,
\* timeout=...)
login_request(cfg) ==
    [ method |-> "POST", url |-> cfg.login_url, params |-> {},
      headers |-> session_headers
                    \cup {<<"Content-Type", "text/xml; charset=UTF-8">>},
      data |-> _build_login_xml(cfg),
      timeout |-> cfg.request_timeout ]

\* self.session.get(self.config.license_url, params=params, timeout=...)
request_license_email_request(cfg) ==
    [ method |-> "GET", url |-> cfg.license_url,
      params |-> _build_license_params(cfg),
      headers |-> session_headers, data |-> <<>>,
      timeout |-> cfg.request_timeout ]

\* the session of the earlier SessionManager, taken again
SameSession == session

NewSession == [closed |-> FALSE, cookies |-> {}]

\* a SessionManager that takes the configuration with retries switched off
manager_config_no_retries(cfg) == [cfg EXCEPT !.max_retries = 0]

\* SessionManager.__init__: self.config = config, the object it was given
manager_config(cfg) == cfg

CloseEvent == [op |-> "close", url |-> ""]

\* __exit__ closing the session only when the block ended without exception
context_exit_on_success_only(s, log, e) ==
    IF e = NoExc
        THEN [session |-> [s EXCEPT !.closed = TRUE], calls |-> Append(log, CloseEvent)]
        ELSE [session |-> s, calls |-> log]

\* __exit__(exc_type, exc_val, exc_tb): self.session.close(), whatever the
\* exception; it returns None, so the exception keeps propagating
context_exit(s, log, e) ==
    [session |-> [s EXCEPT !.closed = TRUE], calls |-> Append(log, CloseEvent)]

----------------------------------------------------------------------------
\* NexacroLicenseRequester.request_license

\* a with-block that swallows the step's exception and goes on
step_result_continue(cfg, e, cur, nxt) == [pc |-> nxt, exc |-> NoExc]

\* a step repeated after a failure while Config.max_retries allows
step_result_retry(cfg, e, cur, nxt) ==
    IF e = NoExc THEN [pc |-> nxt, exc |-> NoExc]
    ELSE IF cfg.max_retries > 0 THEN [pc |-> cur, exc |-> NoExc]
    ELSE [pc |-> "RAISED", exc |-> e]

\* where request_license goes after a step called at cur: on to nxt when the
\* step returned, out of the with-block when it raised e
step_result(cfg, e, cur, nxt) ==
    IF e = NoExc THEN [pc |-> nxt, exc |-> NoExc]
    ELSE [pc |-> "RAISED", exc |-> e]

\* the except clauses without the final `except Exception`
except_category_taxonomy_only(e) ==
    IF isinstance(e, "NetworkError") THEN "Network error"
    ELSE IF isinstance(e, "AuthenticationError") THEN "Authentication failed"
    ELSE IF isinstance(e, "LicenseRequestError") THEN "License request failed"
    ELSE "uncaught"

\* the except clauses with `except Exception` written first
except_category_unexpected_first(e) ==
    IF isinstance(e, "Exception") THEN "Unexpected error"
    ELSE IF isinstance(e, "NetworkError") THEN "Network error"
    ELSE IF isinstance(e, "AuthenticationError") THEN "Authentication failed"
    ELSE IF isinstance(e, "LicenseRequestError") THEN "License request failed"
    ELSE "uncaught"

\* the except clauses of request_license, in order: the error category the
\* matching clause reports, "uncaught" when no clause matches
except_category(e) ==
    IF isinstance(e, "NetworkError") THEN "Network error"
    ELSE IF isinstance(e, "AuthenticationError") THEN "Authentication failed"
    ELSE IF isinstance(e, "LicenseRequestError") THEN "License request failed"
    ELSE IF isinstance(e, "Exception") THEN "Unexpected error"
    ELSE "uncaught"

NoCalls == [homepage |-> NoCall, login |-> NoCall, license |-> NoCall]

\* logging.getLogger("NexacroLicenseRequester") before any requester exists
NoLogger == [handlers |-> <<>>, level |-> "NOTSET", users |-> {}]

\* _setup_logger, called by the constructor of requester who: the logger of
\* that name is fetched, its level set, and the two handlers are added when
\* it has none
_setup_logger(lg, who) ==
    [ handlers |-> IF lg.handlers = <<>>
                      THEN <<"FileHandler", "StreamHandler">>
                      ELSE lg.handlers,
      level |-> "INFO",
      users |-> lg.users \cup {who} ]

\* no constructor is inside _setup_logger
NoSetup == <<>>

\* an environment variable that is not set
Unset == [set |-> FALSE, value |-> <<>>]

\* an environment with none of the variables set
NoEnv ==
    [ NEXACRO_USER_ID |-> Unset, NEXACRO_USER_PASS |-> Unset,
      NEXACRO_EMAIL |-> Unset, NEXACRO_CUSTOMER_ID |-> Unset ]

\* no Config loaded yet
NoConfig == Config(max_retries)

\* a requester that has not called request_license
IdleRun(cfg, p) ==
    [ config |-> cfg, pc |-> p, session |-> [closed |-> TRUE, cookies |-> {}],
      exc |-> NoExc, calls |-> <<>>, resp |-> NoCalls, result |-> "none",
      summary |-> <<>>, path |-> <<>>, wire |-> <<>> ]

\* the run variables hold the record r
RunIs(r) ==
    /\ config = r.config
    /\ pc = r.pc
    /\ session = r.session
    /\ exc = r.exc
    /\ calls = r.calls
    /\ resp = r.resp
    /\ result = r.result
    /\ summary = r.summary
    /\ path = r.path
    /\ wire = r.wire

\* one requester, constructed, in a process that does nothing else
Init ==
    /\ config \in {Config(r) : r \in RetryChoices}
    /\ pc = "IDLE"
    /\ session = [closed |-> TRUE, cookies |-> {}]
    /\ exc = NoExc
    /\ calls = <<>>
    /\ resp = NoCalls
    /\ result = "none"
    /\ summary = <<>>
    /\ path = <<>>
    /\ wire = <<>>
    /\ served = Bodies
    /\ logger = _setup_logger(NoLogger, 1)
    /\ current = 1
    /\ other = IdleRun(NoConfig, "NEW")
    /\ env = NoEnv
    /\ mainpc = "none"
    /\ raised = NoExc
    /\ exit_code = "none"
    /\ xml_body = <<>>
    /\ setup = NoSetup

\* entry to request_license: SessionManager(self.config).__enter__(), with
\* nothing kept from an earlier call
EnterRun ==
    /\ pc' = "START"
    /\ session' = NewSession
    /\ exc' = NoExc
    /\ calls' = <<>>
    /\ resp' = NoCalls
    /\ result' = "none"
    /\ summary' = <<>>
    /\ path' = <<"START">>
    /\ wire' = <<>>
    /\ config' = manager_config(config)

\* request_license is called
Begin ==
    /\ pc \in {"IDLE", "DONE", "FAILED"}
    /\ EnterRun
    /\ UNCHANGED aux

\* Step 1/3: session.establish_session()
EstablishSession ==
    /\ pc = "START"
    /\ \E o \in HomepageOutcomes :
        LET r == step_result(config, establish_session(config, o),
                             "START", "SESSION_ESTABLISHED")
        IN  /\ calls' = Append(calls, [op |-> "GET", url |-> config.homepage_url])
            /\ wire' = Append(wire, establish_session_request(config))
            /\ resp' = [resp EXCEPT !.homepage = o]
            /\ session' = [session EXCEPT !.cookies = @ \cup o.cookies]
            /\ pc' = r.pc
            /\ path' = Append(path, r.pc)
            /\ exc' = r.exc
    /\ UNCHANGED <<config, result, summary>>
    /\ UNCHANGED aux

\* Step 2/3: session.login()
Login ==
    /\ pc = "SESSION_ESTABLISHED"
    /\ \E o \in BodyOutcomes :
        LET r == step_result(config, login(config, o),
                             "SESSION_ESTABLISHED", "AUTHENTICATED")
        IN  /\ calls' = Append(calls, [op |-> "POST", url |-> config.login_url])
            /\ wire' = Append(wire, login_request(config))
            /\ resp' = [resp EXCEPT !.login = o]
            /\ pc' = r.pc
            /\ path' = Append(path, r.pc)
            /\ exc' = r.exc
    /\ UNCHANGED <<config, session, result, summary>>
    /\ UNCHANGED aux

\* Step 3/3: session.request_license_email()
RequestLicenseEmail ==
    /\ pc = "AUTHENTICATED"
    /\ \E o \in BodyOutcomes :
        LET r == step_result(config, request_license_email(config, o),
                             "AUTHENTICATED", "LICENSE_REQUESTED")
        IN  /\ calls' = Append(calls, [op |-> "GET", url |-> config.license_url])
            /\ wire' = Append(wire, request_license_email_request(config))
            /\ resp' = [resp EXCEPT !.license = o]
            /\ pc' = r.pc
            /\ path' = Append(path, r.pc)
            /\ exc' = r.exc
    /\ UNCHANGED <<config, session, result, summary>>
    /\ UNCHANGED aux

\* the with-block is left, normally or by the exception: __exit__
ExitWith ==
    /\ pc \in {"LICENSE_REQUESTED", "RAISED"}
    /\ LET x == context_exit(session, calls, exc)
       IN  /\ session' = x.session
           /\ calls' = x.calls
    /\ pc' = IF exc = NoExc THEN "EXITED" ELSE "UNWINDING"
    /\ path' = Append(path, pc')
    /\ UNCHANGED <<config, exc, resp, result>>
    /\ UNCHANGED <<summary, wire>>
    /\ UNCHANGED aux

\* _log_request_summary(success=True, ...); return True
ReturnTrue ==
    /\ pc = "EXITED"
    /\ summary' = Append(summary,
                         [success |-> TRUE,
                          details |-> [user_id |-> config.user_id,
                                       customer_id |-> config.customer_id,
                                       email |-> config.email]])
    /\ result' = TRUE
    /\ pc' = "DONE"
    /\ path' = Append(path, "DONE")
    /\ UNCHANGED <<config, session, exc, calls, resp, wire>>
    /\ UNCHANGED aux

\* the except clause matching the exception: summary, return False;
\* an exception no clause matches leaves request_license
HandleException ==
    /\ pc = "UNWINDING"
    /\ LET category == except_category(exc)
       IN  IF category = "uncaught"
               THEN /\ pc' = "ESCAPED"
                    /\ UNCHANGED <<result, summary>>
               ELSE /\ pc' = "FAILED"
                    /\ result' = FALSE
                    /\ summary' = Append(summary,
                                         [success |-> FALSE,
                                          details |-> [error |-> category,
                                                       message |-> exc.msg]])
    /\ path' = Append(path, pc')
    /\ UNCHANGED <<config, session, exc, calls, resp, wire>>
    /\ UNCHANGED aux

Next ==
    \/ Begin
    \/ EstablishSession
    \/ Login
    \/ RequestLicenseEmail
    \/ ExitWith
    \/ ReturnTrue
    \/ HandleException

Spec == Init /\ [][Next]_vars

----------------------------------------------------------------------------
\* A run whose steps are all eventually taken

\* the bodies served where the classification is not the subject
FewBodies == {<<>>, SUCCESS, FAIL}

\* one constructed requester; the server answers with one of FewBodies
InitFair ==
    /\ config \in {Config(r) : r \in RetryChoices}
    /\ RunIs(IdleRun(config, "IDLE"))
    /\ served = FewBodies
    /\ logger = _setup_logger(NoLogger, 1)
    /\ current = 1
    /\ other = IdleRun(NoConfig, "NEW")
    /\ env = NoEnv
    /\ mainpc = "none"
    /\ raised = NoExc
    /\ exit_code = "none"
    /\ xml_body = <<>>
    /\ setup = NoSetup

\* what request_license executes once it has been called: every blocking
\* HTTP call returns or raises (timeout=self.config.request_timeout), and the
\* interpreter goes on to the next statement
Running ==
    \/ EstablishSession
    \/ Login
    \/ RequestLicenseEmail
    \/ ExitWith
    \/ ReturnTrue
    \/ HandleException

SpecFair == InitFair /\ [][Next]_vars /\ WF_vars(Running)

----------------------------------------------------------------------------
\* Two requesters in one process, their steps interleaved

\* what a requester owns: self.config, the locals of its request_license,
\* and its SessionManager with the session that one created
own_state ==
    [ config |-> config, pc |-> pc, session |-> session, exc |-> exc,
      calls |-> calls, resp |-> resp, result |-> result, summary |-> summary,
      path |-> path, wire |-> wire ]

\* one module-level session used by every SessionManager
session_shared(parked) == session

\* the session a requester works on: the requests.Session() its own
\* SessionManager created
session_of(parked) == parked.session

InitTwo ==
    /\ RunIs(IdleRun(Config(max_retries), "NEW"))
    /\ served = FewBodies
    /\ logger = NoLogger
    /\ current = 1
    /\ other = IdleRun(Config(max_retries), "NEW")
    /\ env = NoEnv
    /\ mainpc = "none"
    /\ raised = NoExc
    /\ exit_code = "none"
    /\ xml_body = <<>>
    /\ setup = NoSetup

\* NexacroLicenseRequester(config)
Construct ==
    /\ pc = "NEW"
    /\ pc' = "IDLE"
    /\ logger' = _setup_logger(logger, current)
    /\ UNCHANGED <<config, session, exc, calls, resp, result, summary, path, wire>>
    /\ UNCHANGED <<setup, served, current, other, env, mainpc, raised, exit_code, xml_body>>

\* the other requester runs next: the run variables now describe it
Switch ==
    /\ other' = own_state
    /\ current' = 3 - current
    /\ config' = other.config
    /\ pc' = other.pc
    /\ session' = session_of(other)
    /\ exc' = other.exc
    /\ calls' = other.calls
    /\ resp' = other.resp
    /\ result' = other.result
    /\ summary' = other.summary
    /\ path' = other.path
    /\ wire' = other.wire
    /\ UNCHANGED <<setup, served, logger, env, mainpc, raised, exit_code, xml_body>>

NextTwo ==
    \/ Construct
    \/ Switch
    \/ Begin
    \/ EstablishSession
    \/ Login
    \/ RequestLicenseEmail
    \/ ExitWith
    \/ ReturnTrue
    \/ HandleException

SpecTwo == InitTwo /\ [][NextTwo]_vars

----------------------------------------------------------------------------
\* Config.from_env and Config.validate

\* an environment variable set to the text v
SetTo(v) == [set |-> TRUE, value |-> v]

\* os.getenv(var): the value of the variable, None when it is not set
getenv(e, var) == IF e[var].set THEN e[var].value ELSE "None"

\* a test for None only: os.getenv(var) is None
truthy_unless_none(v) == v # "None"

\* truth value of what os.getenv returned: None and "" are false
truthy(v) == v # "None" /\ v # <<>>

required_vars == <<"NEXACRO_USER_ID", "NEXACRO_USER_PASS", "NEXACRO_EMAIL">>

\* sep.join(names), as the sequence of its pieces
RECURSIVE join(_, _)
join(sep, names) ==
    IF names = <<>> THEN <<>>
    ELSE IF Len(names) = 1 THEN names
    ELSE <<Head(names), sep>> \o join(sep, Tail(names))

\* the list comprehension stopping at the first missing variable
missing_first_only(e) ==
    LET all == SelectSeq(required_vars, LAMBDA var : ~truthy(getenv(e, var)))
    IN  IF all = <<>> THEN <<>> ELSE <<Head(all)>>

\* missing = [var for var in required_vars if not os.getenv(var)]
missing(e) == SelectSeq(required_vars, LAMBDA var : ~truthy(getenv(e, var)))

\* Config.from_env: the ValueError it raises, or the Config it returns
from_env(e) ==
    IF missing(e) # <<>>
        THEN [exc |-> Raise("ValueError",
                            <<"Missing required environment variables: ">>
                                \o join(", ", missing(e))),
              config |-> NoConfig]
        ELSE [exc |-> NoExc,
              config |-> [Config(max_retries) EXCEPT
                              !.user_id = e["NEXACRO_USER_ID"].value,
                              !.user_pass = e["NEXACRO_USER_PASS"].value,
                              !.customer_id = e["NEXACRO_USER_ID"].value,
                              !.email = e["NEXACRO_EMAIL"].value]]

\* validate that accepts every configuration
validate_accepts_all(cfg) == NoExc

\* validate that only rejects the empty email
validate_non_empty_only(cfg) ==
    IF cfg.email = <<>>
        THEN Raise("ValueError", <<"Invalid email format: ">> \o cfg.email)
        ELSE NoExc

\* Config.validate: the ValueError it raises, NoExc when it returns
validate(cfg) ==
    IF cfg.email = <<>> \/ ~Contains(<<"@">>, cfg.email)
        THEN Raise("ValueError", <<"Invalid email format: ">> \o cfg.email)
        ELSE NoExc

\* longest email the configuration specification draws
MaxEmailLen == 2

EmailChars == {"a", "@", "."}

\* the texts of at most n characters over the alphabet
RECURSIVE Strings(_, _)
Strings(alphabet, n) ==
    IF n = 0 THEN {<<>>}
    ELSE LET shorter == Strings(alphabet, n - 1)
         IN  shorter \cup {Append(t, c) : t \in shorter, c \in alphabet}

Emails == Strings(EmailChars, MaxEmailLen)

\* the environments from_env is called in: every variable unset, empty or
\* set, the email any of Emails
ConfigEnvs ==
    [ NEXACRO_USER_ID : {Unset, SetTo(<<>>), SetTo(<<"u">>)},
      NEXACRO_USER_PASS : {Unset, SetTo(<<>>), SetTo(<<"p">>)},
      NEXACRO_EMAIL : {Unset} \cup {SetTo(m) : m \in Emails},
      NEXACRO_CUSTOMER_ID : {Unset, SetTo(<<>>), SetTo(<<"c">>)} ]

\* configurations built by calling Config(...) directly
DirectConfigs == {[Config(max_retries) EXCEPT !.email = m] : m \in Emails}

\* a caller about to call Config.from_env(), or holding a Config it built
\* itself
InitConfig ==
    /\ \/ /\ env \in ConfigEnvs
          /\ config = NoConfig
          /\ mainpc = "from_env"
       \/ /\ env = NoEnv
          /\ config \in DirectConfigs
          /\ mainpc = "constructed"
    /\ pc = "NEW"
    /\ session = [closed |-> TRUE, cookies |-> {}]
    /\ exc = NoExc
    /\ calls = <<>>
    /\ resp = NoCalls
    /\ result = "none"
    /\ summary = <<>>
    /\ path = <<>>
    /\ wire = <<>>
    /\ served = FewBodies
    /\ logger = NoLogger
    /\ current = 1
    /\ other = IdleRun(NoConfig, "NEW")
    /\ raised = NoExc
    /\ exit_code = "none"
    /\ xml_body = <<>>
    /\ setup = NoSetup

\* Config.from_env()
FromEnv ==
    /\ mainpc = "from_env"
    /\ LET r == from_env(env)
       IN  /\ raised' = r.exc
           /\ config' = r.config
           /\ mainpc' = IF r.exc = NoExc THEN "loaded" ELSE "from_env_raised"
    /\ UNCHANGED <<pc, session, exc, calls, resp, result, summary, path, wire>>
    /\ UNCHANGED <<setup, served, logger, current, other, env, exit_code, xml_body>>

\* config.validate()
Validate ==
    /\ mainpc \in {"loaded", "constructed"}
    /\ raised' = validate(config)
    /\ mainpc' = IF raised' = NoExc THEN "valid" ELSE "invalid"
    /\ UNCHANGED run
    /\ UNCHANGED <<setup, served, logger, current, other, env, exit_code, xml_body>>

NextConfig ==
    \/ FromEnv
    \/ Validate

SpecConfig == InitConfig /\ [][NextConfig]_vars

----------------------------------------------------------------------------
\* The login body for any credentials

\* number of pieces a credential is made of, at most
MaxPieces == 2

\* what credentials are made of: a letter, the characters XML gives a
\* meaning to, and a text that reads as an entity reference
Pieces ==
    { <<"a">>, <<"&">>, <<"<">>, <<">">>, <<"\"">>, <<"'">>,
      <<"&", "a", "m", "p", ";">> }

RECURSIVE Credentials(_)
Credentials(n) ==
    IF n = 0 THEN {<<>>}
    ELSE LET shorter == Credentials(n - 1)
         IN  shorter \cup {t \o piece : t \in shorter, piece \in Pieces}

\* a SessionManager whose configuration holds any two credentials
InitXml ==
    /\ \E id \in Credentials(MaxPieces), pass \in Credentials(MaxPieces) :
          config = [Config(max_retries) EXCEPT !.user_id = id, !.user_pass = pass,
                                               !.customer_id = id]
    /\ pc = "SESSION_ESTABLISHED"
    /\ session = NewSession
    /\ exc = NoExc
    /\ calls = <<[op |-> "GET", url |-> homepage_url]>>
    /\ resp = [NoCalls EXCEPT !.homepage = Response(200, <<>>, {})]
    /\ result = "none"
    /\ summary = <<>>
    /\ path = <<"START", "SESSION_ESTABLISHED">>
    /\ wire = <<establish_session_request(config)>>
    /\ served = FewBodies
    /\ logger = _setup_logger(NoLogger, 1)
    /\ current = 1
    /\ other = IdleRun(NoConfig, "NEW")
    /\ env = NoEnv
    /\ mainpc = "none"
    /\ raised = NoExc
    /\ exit_code = "none"
    /\ xml_body = <<>>
    /\ setup = NoSetup

\* login: xml_body = self._build_login_xml()
BuildLoginXml ==
    /\ pc = "SESSION_ESTABLISHED"
    /\ xml_body = <<>>
    /\ xml_body' = _build_login_xml(config)
    /\ UNCHANGED run
    /\ UNCHANGED <<setup, served, logger, current, other, env, mainpc, raised, exit_code>>

NextXml ==
    \/ BuildLoginXml

SpecXml == InitXml /\ [][NextXml]_vars

----------------------------------------------------------------------------
\* A SessionManager used directly, its operations called in any order

\* the configurations a SessionManager is built with: the defaults, one with
\* a customer id and an email of its own, one with a timeout of its own, one
\* with a password that has an "&" in it
ManagerConfigs ==
    { Config(max_retries),
      [Config(max_retries) EXCEPT !.customer_id = <<"c">>,
                                  !.email = <<"a", "@", "b">>],
      [Config(max_retries) EXCEPT !.request_timeout = 1],
      [Config(max_retries) EXCEPT !.user_pass = <<"a", "&", "b">>] }

ManagerOps == {"establish_session", "login", "request_license_email"}

\* what the HTTP call of an operation can do
call_outcomes(op) ==
    IF op = "establish_session" THEN HomepageOutcomes ELSE BodyOutcomes

\* the request an operation sends
call_request(op, cfg) ==
    CASE op = "establish_session" -> establish_session_request(cfg)
      [] op = "login" -> login_request(cfg)
      [] op = "request_license_email" -> request_license_email_request(cfg)

\* the step an operation's response is kept under
call_step(op) ==
    CASE op = "establish_session" -> "homepage"
      [] op = "login" -> "login"
      [] op = "request_license_email" -> "license"

\* operations that refuse to run before the session has a cookie
session_call_gated(op, cfg, s, o) ==
    IF op = "establish_session" THEN establish_session(cfg, o)
    ELSE IF s.cookies = {}
        THEN Raise("AuthenticationError", <<"Session not established">>)
    ELSE IF op = "login" THEN login(cfg, o)
    ELSE request_license_email(cfg, o)

\* session.establish_session(), session.login() or
\* session.request_license_email() on the manager whose session is s, the
\* HTTP call doing o: the exception raised, NoExc when the operation returns
session_call(op, cfg, s, o) ==
    CASE op = "establish_session" -> establish_session(cfg, o)
      [] op = "login" -> login(cfg, o)
      [] op = "request_license_email" -> request_license_email(cfg, o)

\* with SessionManager(config) as session: nothing called yet
InitDirect ==
    /\ config \in ManagerConfigs
    /\ pc = "MANAGER"
    /\ session = NewSession
    /\ exc = NoExc
    /\ calls = <<>>
    /\ resp = NoCalls
    /\ result = "none"
    /\ summary = <<>>
    /\ path = <<>>
    /\ wire = <<>>
    /\ served = FewBodies
    /\ logger = NoLogger
    /\ current = 1
    /\ other = IdleRun(NoConfig, "NEW")
    /\ env = NoEnv
    /\ mainpc = "none"
    /\ raised = NoExc
    /\ exit_code = "none"
    /\ xml_body = <<>>
    /\ setup = NoSetup

\* the caller calls operation op, which it has not called before; path
\* keeps what each call did
ManagerCall(op) ==
    /\ \A i \in 1 .. Len(path) : path[i].op # op
    /\ \E o \in call_outcomes(op) :
        LET e == session_call(op, config, session, o)
            request == call_request(op, config)
        IN  /\ calls' = Append(calls, [op |-> request.method, url |-> request.url])
            /\ wire' = Append(wire, request)
            /\ resp' = [resp EXCEPT ![call_step(op)] = o]
            /\ session' = [session EXCEPT !.cookies = @ \cup o.cookies]
            /\ exc' = e
            /\ path' = Append(path, [op |-> op, exc |-> e])
    /\ UNCHANGED <<config, pc, result, summary>>
    /\ UNCHANGED aux

\* session.establish_session()
CallEstablishSession ==
    /\ pc = "MANAGER"
    /\ ManagerCall("establish_session")

\* session.login()
CallLogin ==
    /\ pc = "MANAGER"
    /\ ManagerCall("login")

\* session.request_license_email()
CallRequestLicenseEmail ==
    /\ pc = "MANAGER"
    /\ ManagerCall("request_license_email")

\* the caller leaves the with-block: __exit__
ManagerExit ==
    /\ pc = "MANAGER"
    /\ LET x == context_exit(session, calls, exc)
       IN  /\ session' = x.session
           /\ calls' = x.calls
    /\ pc' = "CLOSED"
    /\ UNCHANGED <<config, exc, resp, result, summary, path, wire>>
    /\ UNCHANGED aux

NextDirect ==
    \/ CallEstablishSession
    \/ CallLogin
    \/ CallRequestLicenseEmail
    \/ ManagerExit

SpecDirect == InitDirect /\ [][NextDirect]_vars

----------------------------------------------------------------------------
\* The workflow for configurations other than the defaults

\* one constructed requester holding any of ManagerConfigs
InitAnyConfig ==
    /\ config \in ManagerConfigs
    /\ RunIs(IdleRun(config, "IDLE"))
    /\ served = FewBodies
    /\ logger = _setup_logger(NoLogger, 1)
    /\ current = 1
    /\ other = IdleRun(NoConfig, "NEW")
    /\ env = NoEnv
    /\ mainpc = "none"
    /\ raised = NoExc
    /\ exit_code = "none"
    /\ xml_body = <<>>
    /\ setup = NoSetup

SpecAnyConfig == InitAnyConfig /\ [][Next]_vars

----------------------------------------------------------------------------
\* request_license called again and again on one requester

\* number of calls of request_license on the requester
MaxRuns == 2

\* one constructed requester; current counts its calls of request_license,
\* other keeps the call before the present one as it ended
InitRepeat ==
    /\ RunIs(IdleRun(Config(max_retries), "IDLE"))
    /\ served = FewBodies
    /\ logger = _setup_logger(NoLogger, 1)
    /\ current = 0
    /\ other = IdleRun(NoConfig, "NEW")
    /\ env = NoEnv
    /\ mainpc = "none"
    /\ raised = NoExc
    /\ exit_code = "none"
    /\ xml_body = <<>>
    /\ setup = NoSetup

\* the first call of request_license
FirstCall ==
    /\ pc = "IDLE"
    /\ EnterRun
    /\ current' = 1
    /\ UNCHANGED <<setup, served, logger, other, env, mainpc, raised, exit_code, xml_body>>

\* request_license is called again after it returned
NextCall ==
    /\ pc \in {"DONE", "FAILED"}
    /\ current < MaxRuns
    /\ EnterRun
    /\ current' = current + 1
    /\ other' = own_state
    /\ UNCHANGED <<setup, served, logger, env, mainpc, raised, exit_code, xml_body>>

NextRepeat ==
    \/ FirstCall
    \/ NextCall
    \/ EstablishSession
    \/ Login
    \/ RequestLicenseEmail
    \/ ExitWith
    \/ ReturnTrue
    \/ HandleException

SpecRepeat == InitRepeat /\ [][NextRepeat]_vars

----------------------------------------------------------------------------
\* main()

\* the environments main is started in: each required variable unset, empty
\* or set; emails with and without "@"; NEXACRO_CUSTOMER_ID set or not
MainEnvs ==
    [ NEXACRO_USER_ID : {Unset, SetTo(<<>>), SetTo(<<"u">>)},
      NEXACRO_USER_PASS : {Unset, SetTo(<<"p">>)},
      NEXACRO_EMAIL : {Unset, SetTo(<<>>), SetTo(<<"a">>), SetTo(<<"a", "@", "b">>)},
      NEXACRO_CUSTOMER_ID : {Unset, SetTo(<<"c">>)} ]

\* what the constructor can do: return, or fail creating the log directory
\* or the log file
ConstructOutcomes == {"none", "OSError"}

\* main returning 0 whatever request_license returned
main_exit_code_always_zero(success) == 0

\* return 0 if success else 1
main_exit_code(success) == IF success THEN 0 ELSE 1

\* the except clauses of main without the final `except Exception`
main_except_value_error_only(e) ==
    IF isinstance(e, "ValueError")
        THEN [caught |-> TRUE, log |-> "Configuration error", exit_code |-> 1]
        ELSE [caught |-> FALSE, log |-> "", exit_code |-> "none"]

\* the except clauses of main, in order
main_except(e) ==
    IF isinstance(e, "ValueError")
        THEN [caught |-> TRUE, log |-> "Configuration error", exit_code |-> 1]
    ELSE IF isinstance(e, "Exception")
        THEN [caught |-> TRUE, log |-> "Fatal error", exit_code |-> 1]
    ELSE [caught |-> FALSE, log |-> "", exit_code |-> "none"]

InitMain ==
    /\ RunIs(IdleRun(NoConfig, "NEW"))
    /\ served = FewBodies
    /\ logger = NoLogger
    /\ current = 1
    /\ other = IdleRun(NoConfig, "NEW")
    /\ env \in MainEnvs
    /\ mainpc = "from_env"
    /\ raised = NoExc
    /\ exit_code = "none"
    /\ xml_body = <<>>
    /\ setup = NoSetup

\* config = Config.from_env()
MainFromEnv ==
    /\ mainpc = "from_env"
    /\ LET r == from_env(env)
       IN  IF r.exc = NoExc
               THEN /\ config' = r.config
                    /\ mainpc' = "validate"
                    /\ UNCHANGED raised
               ELSE /\ raised' = r.exc
                    /\ mainpc' = "except"
                    /\ UNCHANGED config
    /\ UNCHANGED <<pc, session, exc, calls, resp, result, summary, path, wire>>
    /\ UNCHANGED <<setup, served, logger, current, other, env, exit_code, xml_body>>

\* config.validate()
MainValidate ==
    /\ mainpc = "validate"
    /\ LET e == validate(config)
       IN  IF e = NoExc
               THEN /\ mainpc' = "construct"
                    /\ UNCHANGED raised
               ELSE /\ raised' = e
                    /\ mainpc' = "except"
    /\ UNCHANGED run
    /\ UNCHANGED <<setup, served, logger, current, other, env, exit_code, xml_body>>

\* requester = NexacroLicenseRequester(config)
MainConstruct ==
    /\ mainpc = "construct"
    /\ \E o \in ConstructOutcomes :
        IF o = "none"
            THEN /\ pc' = "IDLE"
                 /\ logger' = _setup_logger(logger, current)
                 /\ mainpc' = "request_license"
                 /\ UNCHANGED raised
            ELSE /\ raised' = Raise(o, <<"logs">>)
                 /\ mainpc' = "except"
                 /\ UNCHANGED <<pc, logger>>
    /\ UNCHANGED <<config, session, exc, calls, resp, result, summary, path, wire>>
    /\ UNCHANGED <<setup, served, current, other, env, exit_code, xml_body>>

\* success = requester.request_license(): the call
MainRequestLicense ==
    /\ mainpc = "request_license"
    /\ pc = "IDLE"
    /\ Begin

\* request_license is left: return 0 if success else 1, or its exception
\* reaches the except clauses of main
MainReturn ==
    /\ mainpc = "request_license"
    /\ pc \in {"DONE", "FAILED", "ESCAPED"}
    /\ IF pc = "ESCAPED"
           THEN /\ raised' = exc
                /\ mainpc' = "except"
                /\ UNCHANGED exit_code
           ELSE /\ exit_code' = main_exit_code(result)
                /\ mainpc' = "returned"
                /\ UNCHANGED raised
    /\ UNCHANGED run
    /\ UNCHANGED <<setup, served, logger, current, other, env, xml_body>>

\* except ValueError / except Exception: logging.error, return 1
MainExcept ==
    /\ mainpc = "except"
    /\ LET r == main_except(raised)
       IN  /\ exit_code' = r.exit_code
           /\ mainpc' = IF r.caught THEN "returned" ELSE "crashed"
    /\ UNCHANGED run
    /\ UNCHANGED <<setup, served, logger, current, other, env, raised, xml_body>>

NextMain ==
    \/ MainFromEnv
    \/ MainValidate
    \/ MainConstruct
    \/ MainRequestLicense
    \/ EstablishSession
    \/ Login
    \/ RequestLicenseEmail
    \/ ExitWith
    \/ ReturnTrue
    \/ HandleException
    \/ MainReturn
    \/ MainExcept

SpecMain == InitMain /\ [][NextMain]_vars

----------------------------------------------------------------------------
\* Constructors in the threads of one process: _setup_logger statement by
\* statement.  The logger is one object for the whole process; the handlers
\* each constructor creates are its own.

MaxConstructors == 3

Constructors == 1 .. MaxConstructors

\* mkdir of the log directory and the opening of the log file may fail
SetupOutcomes == {"none", "OSError"}

\* logger = logging.getLogger("NexacroLicenseRequester");
\* logger.setLevel(logging.INFO)
getLogger(lg, who) ==
    [lg EXCEPT !.level = "INFO", !.users = @ \cup {who}]

\* not logger.handlers
no_handlers(lg) == lg.handlers = <<>>

\* logger.addHandler(handler), handler an object made by this constructor
addHandler(lg, handler) ==
    [lg EXCEPT !.handlers = Append(@, handler)]

\* the statement constructor t executes next
At(t, position) == setup[t] = position

Goto(t, position) == setup' = [setup EXCEPT ![t] = position]

InitLogger ==
    /\ RunIs(IdleRun(Config(max_retries), "NEW"))
    /\ served = FewBodies
    /\ logger = NoLogger
    /\ current = 1
    /\ other = IdleRun(NoConfig, "NEW")
    /\ env = NoEnv
    /\ mainpc = "none"
    /\ raised = NoExc
    /\ exit_code = "none"
    /\ xml_body = <<>>
    /\ setup = [t \in Constructors |-> "new"]

\* logger = logging.getLogger(...); logger.setLevel(logging.INFO)
SetupGetLogger ==
    /\ \E t \in Constructors :
          /\ At(t, "new")
          /\ logger' = getLogger(logger, t)
          /\ Goto(t, "create_handlers")
    /\ UNCHANGED run
    /\ UNCHANGED <<served, current, other, env, mainpc, raised, exit_code, xml_body>>

\* log_dir.mkdir(exist_ok=True); file_handler = logging.FileHandler(...);
\* console_handler = logging.StreamHandler(): objects local to the call
SetupCreateHandlers ==
    /\ \E t \in Constructors, o \in SetupOutcomes :
          /\ At(t, "create_handlers")
          /\ Goto(t, IF o = "none" THEN "if" ELSE "raised")
    /\ UNCHANGED run
    /\ UNCHANGED <<served, logger, current, other, env, mainpc, raised, exit_code,
                   xml_body>>

\* if not logger.handlers:
SetupIfNoHandlers ==
    /\ \E t \in Constructors :
          /\ At(t, "if")
          /\ Goto(t, IF no_handlers(logger) THEN "add_file_handler" ELSE "return")
    /\ UNCHANGED run
    /\ UNCHANGED <<served, logger, current, other, env, mainpc, raised, exit_code,
                   xml_body>>

\* logger.addHandler(file_handler)
SetupAddFileHandler ==
    /\ \E t \in Constructors :
          /\ At(t, "add_file_handler")
          /\ logger' = addHandler(logger, "FileHandler")
          /\ Goto(t, "add_console_handler")
    /\ UNCHANGED run
    /\ UNCHANGED <<served, current, other, env, mainpc, raised, exit_code, xml_body>>

\* logger.addHandler(console_handler)
SetupAddConsoleHandler ==
    /\ \E t \in Constructors :
          /\ At(t, "add_console_handler")
          /\ logger' = addHandler(logger, "StreamHandler")
          /\ Goto(t, "return")
    /\ UNCHANGED run
    /\ UNCHANGED <<served, current, other, env, mainpc, raised, exit_code, xml_body>>

\* return logger: self.logger is set and the constructor is over
SetupReturn ==
    /\ \E t \in Constructors :
          /\ At(t, "return")
          /\ Goto(t, "constructed")
    /\ UNCHANGED run
    /\ UNCHANGED <<served, logger, current, other, env, mainpc, raised, exit_code,
                   xml_body>>

NextLogger ==
    \/ SetupGetLogger
    \/ SetupCreateHandlers
    \/ SetupIfNoHandlers
    \/ SetupAddFileHandler
    \/ SetupAddConsoleHandler
    \/ SetupReturn

SpecLogger == InitLogger /\ [][NextLogger]_vars

----------------------------------------------------------------------------
\* Vocabulary of the properties

\* the lower/upper pairs of the letters that occur in Words
CasePairs ==
    { <<"a", "A">>, <<"c", "C">>, <<"e", "E">>, <<"f", "F">>, <<"i", "I">>,
      <<"l", "L">>, <<"s", "S">>, <<"u", "U">> }

SameLetter(a, b) == a = b \/ <<a, b>> \in CasePairs \/ <<b, a>> \in CasePairs

\* word occurs in text at some position, letter case ignored
ContainsIgnoreCase(word, text) ==
    \E i \in 0 .. (Len(text) - Len(word)) :
        \A j \in 1 .. Len(word) : SameLetter(text[i + j], word[j])

\* the call returned a response whose status is no HTTP error
HttpSuccess(o) == o.kind = "response" /\ o.status < 400

\* the call failed at transport level: a requests exception was raised, or
\* the response carries an HTTP error status
TransportFailure(o) ==
    \/ o.kind = "raise" /\ "RequestException" \in Bases(o.cls)
    \/ o.kind = "response" /\ o.status >= 400

HomepageGet == [op |-> "GET", url |-> homepage_url]
LoginPost == [op |-> "POST", url |-> login_url]
LicenseGet == [op |-> "GET", url |-> license_url]

IsHttpCall(c) == c.op # "close"
HttpCalls == SelectSeq(calls, IsHttpCall)
Count(c) == Cardinality({i \in 1 .. Len(calls) : calls[i] = c})
Visited(p) == \E i \in 1 .. Len(path) : path[i] = p

Returned == pc \in {"DONE", "FAILED"}

\* the positions of path that are states of the workflow state machine
IsWorkflowState(p) ==
    p \in {"START", "SESSION_ESTABLISHED", "AUTHENTICATED", "LICENSE_REQUESTED",
           "DONE", "FAILED"}
WorkflowPath == SelectSeq(path, IsWorkflowState)

\* the step that raised, when one did: the last one called
FailedStep ==
    IF resp.license.kind # "none" THEN "license"
    ELSE IF resp.login.kind # "none" THEN "login"
    ELSE "homepage"

----------------------------------------------------------------------------
\* C1

\* a run that has returned after an HTTP-success homepage response and an
\* HTTP-success login response whose body contains "SUCCESS" has issued the
\* license GET, once
C1_LicenseGetFollowsLogin ==
    ( /\ Returned
      /\ HttpSuccess(resp.homepage)
      /\ HttpSuccess(resp.login)
      /\ ContainsIgnoreCase(SUCCESS, resp.login.text) )
    => ( /\ Visited("AUTHENTICATED")
         /\ Count(LicenseGet) = 1 )

\* C1 as stated: whenever request_license has returned after an HTTP-success
\* homepage response, an HTTP-success login response whose body contains
\* "SUCCESS" and an HTTP-success license response whose body contains
\* "SUCCESS", it returned True after exactly the homepage GET, the login POST
\* and the license GET, in that order, through START, SESSION_ESTABLISHED,
\* AUTHENTICATED, LICENSE_REQUESTED, DONE.
C1_SuccessBodiesGiveTrue ==
    /\ C1_LicenseGetFollowsLogin
    /\ ( /\ Returned
         /\ HttpSuccess(resp.homepage)
         /\ HttpSuccess(resp.login)
         /\ ContainsIgnoreCase(SUCCESS, resp.login.text)
         /\ HttpSuccess(resp.license)
         /\ ContainsIgnoreCase(SUCCESS, resp.license.text) )
       => ( /\ result = TRUE
            /\ HttpCalls = <<HomepageGet, LoginPost, LicenseGet>>
            /\ WorkflowPath = <<"START", "SESSION_ESTABLISHED", "AUTHENTICATED",
                                "LICENSE_REQUESTED", "DONE">> )

\* C1 amended: the same, for license bodies that contain "SUCCESS" and do not
\* contain "FAIL" (letter case ignored): the run returns True after exactly
\* one homepage GET, one login POST and one license GET, in that order, and
\* goes START, SESSION_ESTABLISHED, AUTHENTICATED, LICENSE_REQUESTED, DONE.
C1_SuccessWithoutFailGivesTrue ==
    /\ C1_LicenseGetFollowsLogin
    /\ ( /\ Returned
         /\ HttpSuccess(resp.homepage)
         /\ HttpSuccess(resp.login)
         /\ ContainsIgnoreCase(SUCCESS, resp.login.text)
         /\ HttpSuccess(resp.license)
         /\ ContainsIgnoreCase(SUCCESS, resp.license.text)
         /\ ~ContainsIgnoreCase(FAIL, resp.license.text) )
       => ( /\ result = TRUE
            /\ HttpCalls = <<HomepageGet, LoginPost, LicenseGet>>
            /\ WorkflowPath = <<"START", "SESSION_ESTABLISHED", "AUTHENTICATED",
                                "LICENSE_REQUESTED", "DONE">> )

\* a run that returned True on a login body holding both markers and a
\* license body holding "SUCCESS" in mixed case
C1_Witness ==
    /\ pc = "DONE"
    /\ result = TRUE
    /\ resp.login.text = FAIL \o SUCCESS
    /\ resp.license.text = <<"S", "u", "c", "c">> \o <<"e", "s", "s">>

----------------------------------------------------------------------------
\* C2

\* C2: the login POST is in the run's calls only if establish_session
\* returned without error, the license GET only if login returned without
\* error; and a run whose login response body does not contain "SUCCESS"
\* returns False with exactly one login POST and no license GET.
C2_NeverPastFirstFailure ==
    /\ Count(LoginPost) > 0 => establish_session(config, resp.homepage) = NoExc
    /\ Count(LicenseGet) > 0 => login(config, resp.login) = NoExc
    /\ resp.login.kind = "response" /\ ~ContainsIgnoreCase(SUCCESS, resp.login.text)
        => /\ Count(LicenseGet) = 0
           /\ Count(LoginPost) = 1
           /\ ~Visited("AUTHENTICATED")
           /\ pc # "DONE"
           /\ Returned => result = FALSE

\* a run that returned False on an HTTP-success login body without "SUCCESS"
C2_Witness ==
    /\ pc = "FAILED"
    /\ result = FALSE
    /\ resp.login = Response(200, FAIL, {})
    /\ HttpCalls = <<HomepageGet, LoginPost>>

----------------------------------------------------------------------------
\* C3

\* C3: no exception leaves request_license: it never ends by an escaping
\* exception; once a step has raised (whatever the class), no further HTTP
\* call is issued, the run never reaches DONE, and when it returns it
\* returns False.
C3_NoExceptionEscapes ==
    /\ pc # "ESCAPED"
    /\ exc # NoExc
        => /\ pc \in {"RAISED", "UNWINDING", "FAILED"}
           /\ resp[FailedStep].kind # "none"
           /\ Len(HttpCalls) = (CASE FailedStep = "homepage" -> 1
                                  [] FailedStep = "login" -> 2
                                  [] FailedStep = "license" -> 3)
           /\ Returned => result = FALSE
    /\ pc = "FAILED" => exc # NoExc /\ result = FALSE

\* a run that returned False on a requests exception SessionManager does not
\* convert, raised by the login POST
C3_Witness ==
    /\ pc = "FAILED"
    /\ result = FALSE
    /\ exc.cls = "TooManyRedirects"
    /\ FailedStep = "login"

----------------------------------------------------------------------------
\* C4

\* C4: whenever request_license has returned, the run's session is closed,
\* close() was called exactly once and is the last entry of the run's calls
\* (after every HTTP call); and at no time does an HTTP call follow close().
C4_SessionClosedOnEveryExit ==
    /\ Returned
        => /\ session.closed
           /\ Count(CloseEvent) = 1
           /\ calls[Len(calls)] = CloseEvent
    /\ \A i \in 1 .. Len(calls) : calls[i] = CloseEvent => i = Len(calls)
    /\ pc \in {"START", "SESSION_ESTABLISHED", "AUTHENTICATED"} => ~session.closed

\* a run that returned False on a plain Exception at the first step, with
\* the session closed
C4_Witness ==
    /\ pc = "FAILED"
    /\ exc.cls = "Exception"
    /\ session.closed
    /\ calls = <<HomepageGet, CloseEvent>>

----------------------------------------------------------------------------
\* C5

\* the error category of the failure summary of the run
ReportedReason == summary[Len(summary)].details.error

\* C5 as stated: a run that reached FAILED reports a reason of the failing
\* step's set: Network error for establish_session; Authentication failed or
\* Network error for login; License request failed or Network error for the
\* license request.
C5_ReasonWithinStepSet ==
    pc = "FAILED"
        => CASE FailedStep = "homepage" -> ReportedReason = "Network error"
             [] FailedStep = "login" ->
                    ReportedReason \in {"Authentication failed", "Network error"}
             [] FailedStep = "license" ->
                    ReportedReason \in {"License request failed", "Network error"}

----------------------------------------------------------------------------
\* C6

\* C6 as stated: whenever a step has raised on a transport failure of its
\* HTTP call (a requests exception, or an HTTP error status), the exception
\* it raised is a NetworkError.
C6_TransportFailureIsNetworkError ==
    pc = "RAISED" /\ TransportFailure(resp[FailedStep])
        => exc.cls = "NetworkError"

----------------------------------------------------------------------------
\* C7

\* C7: after login() on an HTTP-success response, login returned (the run
\* went on to AUTHENTICATED) exactly when the body contains "SUCCESS", letter
\* case ignored, whatever else the body holds; on every other body it
\* raised AuthenticationError.
C7_LoginClassification ==
    HttpSuccess(resp.login)
        => IF ContainsIgnoreCase(SUCCESS, resp.login.text)
              THEN /\ Visited("AUTHENTICATED")
                   /\ FailedStep = "login" => exc = NoExc
              ELSE /\ ~Visited("AUTHENTICATED")
                   /\ FailedStep = "login"
                   /\ exc.cls = "AuthenticationError"

\* login returned on a body that holds "fail" and then "SUCCESS"
C7_Witness ==
    /\ pc = "AUTHENTICATED"
    /\ resp.login = Response(200, <<"f", "a", "i", "l">> \o SUCCESS, {})
    /\ exc = NoExc

----------------------------------------------------------------------------
\* C8

\* C8: after request_license_email() on an HTTP-success response: a body
\* containing "FAIL" raised LicenseRequestError, also when it contains
\* "SUCCESS"; a body without "FAIL" and with "SUCCESS" made it return; every
\* other body raised LicenseRequestError.
C8_LicensePrecedence ==
    HttpSuccess(resp.license)
        => IF ContainsIgnoreCase(FAIL, resp.license.text)
              THEN exc.cls = "LicenseRequestError" /\ ~Visited("LICENSE_REQUESTED")
           ELSE IF ContainsIgnoreCase(SUCCESS, resp.license.text)
              THEN exc = NoExc /\ Visited("LICENSE_REQUESTED")
           ELSE exc.cls = "LicenseRequestError" /\ ~Visited("LICENSE_REQUESTED")

\* a run failed by LicenseRequestError on a body holding "SUCCESS" and then
\* "FAIL"
C8_Witness ==
    /\ pc = "FAILED"
    /\ resp.license = Response(200, SUCCESS \o FAIL, {})
    /\ exc.cls = "LicenseRequestError"

----------------------------------------------------------------------------
\* C9

\* the message holds the part "Unknown response"
CarriesUnknownResponse(msg) == \E i \in 1 .. Len(msg) : msg[i] = "Unknown response"

\* C9: after request_license_email() on an HTTP-success response whose body
\* is empty or contains neither "FAIL" nor "SUCCESS", the exception is a
\* LicenseRequestError whose message carries "Unknown response"; on a body
\* containing "FAIL" it is a LicenseRequestError whose message does not.
C9_UnknownResponseIsDistinct ==
    HttpSuccess(resp.license)
        => /\ ( /\ ~ContainsIgnoreCase(FAIL, resp.license.text)
                /\ ~ContainsIgnoreCase(SUCCESS, resp.license.text) )
              => ( /\ exc.cls = "LicenseRequestError"
                   /\ CarriesUnknownResponse(exc.msg) )
           /\ ContainsIgnoreCase(FAIL, resp.license.text)
              => ( /\ exc.cls = "LicenseRequestError"
                   /\ ~CarriesUnknownResponse(exc.msg) )

\* request_license_email raised the "Unknown response" error on an empty body
C9_Witness ==
    /\ pc = "RAISED"
    /\ resp.license = Response(200, <<>>, {})
    /\ exc.cls = "LicenseRequestError"
    /\ CarriesUnknownResponse(exc.msg)

----------------------------------------------------------------------------
\* C10

\* C10: in one run each of the homepage GET, the login POST and the license
\* GET is issued at most once, whatever Config.max_retries is and whatever
\* the failure.
C10_NoStepRetried ==
    /\ Count(HomepageGet) <= 1
    /\ Count(LoginPost) <= 1
    /\ Count(LicenseGet) <= 1
    /\ Len(HttpCalls) <= 3

\* a run with max_retries = 3 that returned False after a single homepage GET
\* that timed out
C10_Witness ==
    /\ pc = "FAILED"
    /\ config.max_retries = max_retries
    /\ resp.homepage = Raised("ReadTimeout")
    /\ exc.cls = "NetworkError"
    /\ HttpCalls = <<HomepageGet>>

----------------------------------------------------------------------------
\* C11

\* the three responses of a run are those of a successful workflow
RunSucceeds(r) ==
    /\ HttpSuccess(r.homepage)
    /\ HttpSuccess(r.login)
    /\ ContainsIgnoreCase(SUCCESS, r.login.text)
    /\ HttpSuccess(r.license)
    /\ ContainsIgnoreCase(SUCCESS, r.license.text)
    /\ ~ContainsIgnoreCase(FAIL, r.license.text)

Answered(r) == Cardinality({k \in {"homepage", "login", "license"} : r[k].kind # "none"})

\* the run r of one requester shows no trace of the other requester: its
\* session is open while it is inside the with-block, holds the cookies of
\* its own homepage response only, its calls are the ones its own responses
\* answered, and what it returned is decided by its own three responses
RunIsItsOwn(r) ==
    /\ r.pc \in {"START", "SESSION_ESTABLISHED", "AUTHENTICATED",
                 "LICENSE_REQUESTED", "RAISED"} => ~r.session.closed
    /\ r.pc \notin {"NEW", "IDLE"} => r.session.cookies = r.resp.homepage.cookies
    /\ Len(SelectSeq(r.calls, IsHttpCall)) = Answered(r.resp)
    /\ r.pc \in {"DONE", "FAILED"}
        => /\ r.result \in BOOLEAN
           /\ r.result = RunSucceeds(r.resp)
           /\ r.session.closed

----------------------------------------------------------------------------
\* C12

\* C12: request_license returns True only in state DONE, after exactly one
\* call of each of establish_session, login and request_license_email (one
\* homepage GET, one login POST, one license GET, in that order), each of
\* which returned without raising; a run that reaches FAILED returns False.
C12_TrueOnlyAfterThreeCleanSteps ==
    /\ ~Returned => result = "none"
    /\ (Returned /\ result = TRUE)
        => /\ pc = "DONE"
           /\ ~Visited("FAILED")
           /\ Count(HomepageGet) = 1
           /\ Count(LoginPost) = 1
           /\ Count(LicenseGet) = 1
           /\ HttpCalls = <<HomepageGet, LoginPost, LicenseGet>>
           /\ establish_session(config, resp.homepage) = NoExc
           /\ login(config, resp.login) = NoExc
           /\ request_license_email(config, resp.license) = NoExc
    /\ pc = "FAILED" => result = FALSE
    /\ Visited("FAILED") => pc = "FAILED"

\* a run that returned True from DONE
C12_Witness ==
    /\ pc = "DONE"
    /\ result = TRUE
    /\ Len(calls) = 4
    /\ resp.license.text = SUCCESS

----------------------------------------------------------------------------
\* C13

\* C13: main never lets an exception out; when it has returned, the exit
\* code is 0 exactly when request_license returned True, and it is 1 after a
\* configuration error (from_env or validate raised), after a workflow
\* failure, and after any other exception.
C13_ExitCode ==
    /\ mainpc # "crashed"
    /\ mainpc = "returned"
        => /\ exit_code \in {0, 1}
           /\ exit_code = 0 <=> (pc = "DONE" /\ result = TRUE)
           /\ raised # NoExc => exit_code = 1
           /\ pc = "FAILED" => exit_code = 1

\* main returned 0 after a successful workflow
C13_Witness ==
    /\ mainpc = "returned"
    /\ exit_code = 0
    /\ pc = "DONE"
    /\ raised = NoExc

\* main returned 1 after the constructor failed
C13_WitnessUnexpected ==
    /\ mainpc = "returned"
    /\ exit_code = 1
    /\ raised.cls = "OSError"

----------------------------------------------------------------------------
\* C14

\* a required variable is missing (unset or empty) or the email is not valid
BadConfigInput ==
    \/ \E i \in 1 .. Len(required_vars) :
        ~env[required_vars[i]].set \/ env[required_vars[i]].value = <<>>
    \/ \A i \in 1 .. Len(env.NEXACRO_EMAIL.value) : env.NEXACRO_EMAIL.value[i] # "@"

\* C14: when a required environment variable is missing or the email is not
\* valid, main issues no HTTP call and creates neither requester nor session:
\* it goes from from_env or validate to its except clause and returns 1.
C14_ConfigFailureBeforeNetwork ==
    BadConfigInput
        => /\ pc = "NEW"
           /\ calls = <<>>
           /\ path = <<>>
           /\ session = [closed |-> TRUE, cookies |-> {}]
           /\ mainpc \in {"from_env", "validate", "except", "returned"}
           /\ mainpc = "returned" => (exit_code = 1 /\ raised.cls = "ValueError")

\* main returned 1 on an email without "@", all required variables present
C14_Witness ==
    /\ mainpc = "returned"
    /\ exit_code = 1
    /\ env.NEXACRO_EMAIL = SetTo(<<"a">>)
    /\ raised = Raise("ValueError", <<"Invalid email format: ", "a">>)
    /\ calls = <<>>
    /\ pc = "NEW"

----------------------------------------------------------------------------
\* C15

AllVars ==
    {"NEXACRO_USER_ID", "NEXACRO_USER_PASS", "NEXACRO_EMAIL", "NEXACRO_CUSTOMER_ID"}

\* the required variables that supply no value: not set, or set to ""
MissingInputs ==
    {var \in {"NEXACRO_USER_ID", "NEXACRO_USER_PASS", "NEXACRO_EMAIL"} :
        ~env[var].set \/ env[var].value = <<>>}

\* the message of the raised error names the variable
Named(var) == \E i \in 1 .. Len(raised.msg) : raised.msg[i] = var

\* C15: from_env raises exactly when some required variable is missing (not
\* set, or set to the empty string); the error is a ValueError whose message
\* names every missing variable and no other variable.
C15_EveryMissingInputNamed ==
    /\ mainpc = "from_env_raised"
        => /\ MissingInputs # {}
           /\ raised.cls = "ValueError"
           /\ raised.msg[1] = "Missing required environment variables: "
           /\ \A var \in AllVars : Named(var) <=> var \in MissingInputs
    /\ mainpc \in {"loaded", "valid", "invalid"} /\ env # NoEnv
        => MissingInputs = {}

\* from_env failed on an environment where the first and the last required
\* variable are missing and the middle one is present
C15_Witness ==
    /\ mainpc = "from_env_raised"
    /\ MissingInputs = {"NEXACRO_USER_ID", "NEXACRO_EMAIL"}
    /\ ~env.NEXACRO_USER_ID.set
    /\ raised.msg = <<"Missing required environment variables: ",
                      "NEXACRO_USER_ID", ", ", "NEXACRO_EMAIL">>

----------------------------------------------------------------------------
\* C16

HasAt(email) == \E i \in 1 .. Len(email) : email[i] = "@"

\* C16: validate returns for every email that contains "@" and raises a
\* ValueError for the empty email and for every email without "@"; the
\* call changes neither the configuration nor anything else.
C16_ValidateAcceptsExactlyAt ==
    /\ [](mainpc \in {"valid", "invalid"}
            => /\ mainpc = "valid" <=> HasAt(config.email)
               /\ config.email = <<>> => mainpc = "invalid"
               /\ mainpc = "invalid" <=> raised.cls = "ValueError")
    /\ [][mainpc' \in {"valid", "invalid"}
            => /\ config' = config
               /\ env' = env
               /\ UNCHANGED <<pc, session, calls, logger>>]_vars

\* validate accepted an email that is nothing but "@" and a letter
C16_Witness ==
    /\ mainpc = "valid"
    /\ config.email = <<"@", "a">>
    /\ raised = NoExc

\* validate rejected a non-empty email without "@"
C16_WitnessRejected ==
    /\ mainpc = "invalid"
    /\ config.email = <<"a", ".">>
    /\ raised.cls = "ValueError"

----------------------------------------------------------------------------
\* C17

\* C17: the Config from_env returns has the value of NEXACRO_CUSTOMER_ID as
\* customer_id when that variable is set, and user_id when it is not.
C17_CustomerIdFromEnvironment ==
    mainpc = "loaded"
        => config.customer_id =
             IF env.NEXACRO_CUSTOMER_ID.set
                 THEN env.NEXACRO_CUSTOMER_ID.value
                 ELSE config.user_id

----------------------------------------------------------------------------
\* C18

\* C18: once from_env was called in an environment without
\* NEXACRO_CUSTOMER_ID, it has raised a ValueError whose message names
\* NEXACRO_CUSTOMER_ID.
C18_AbsentCustomerIdFails ==
    (mainpc \in {"loaded", "from_env_raised"} /\ ~env.NEXACRO_CUSTOMER_ID.set)
        => /\ mainpc = "from_env_raised"
           /\ raised.cls = "ValueError"
           /\ Named("NEXACRO_CUSTOMER_ID")

----------------------------------------------------------------------------
\* C19

Categories ==
    {"Network error", "Authentication failed", "License request failed",
     "Unexpected error"}

\* the last entry of the summary reports a failure with a category and a
\* non-empty message
FailureReported ==
    /\ summary # <<>>
    /\ summary[Len(summary)].success = FALSE
    /\ summary[Len(summary)].details.error \in Categories
    /\ summary[Len(summary)].details.message # <<>>
    /\ summary[Len(summary)].details.message = exc.msg

\* C19: when every HTTP call returns or fails, a run of request_license that
\* has started reaches DONE or FAILED and returns; a run in FAILED has
\* reported an error category and a message, and every run that left the
\* with-block by an exception gets to FAILED.
C19_EveryRunTerminates ==
    /\ [](pc = "FAILED" => (result = FALSE /\ FailureReported))
    /\ (pc = "START") ~> Returned
    /\ (pc \in {"RAISED", "UNWINDING"}) ~> (pc = "FAILED")

\* a run that failed at its last step on an exception that is not a
\* requests Timeout, ConnectionError or HTTPError, and reported it
C19_Witness ==
    /\ pc = "FAILED"
    /\ resp.license = Raised("TooManyRedirects")
    /\ FailureReported
    /\ summary[Len(summary)].details.error = "Unexpected error"

----------------------------------------------------------------------------
\* C20

\* The body as an XML parser reads it.  The alphabet of Credentials has no
\* "/", "!" or "?", so a "<" inside element text cannot open an element, a
\* comment or a section that is ever closed: the document is not well-formed.

\* what ends a run of element text: a tag of the template or a bare "<"
IsMarkup(x) ==
    \/ x = "<"
    \/ \E i \in 1 .. Len(login_xml_head) : login_xml_head[i] = x /\ x \notin {"XML", "CS", "POTAL_USER"}
    \/ \E i \in 1 .. Len(login_xml_between) : login_xml_between[i] = x
    \/ \E i \in 1 .. Len(login_xml_tail) : login_xml_tail[i] = x

\* element text decoded: "&amp;" stands for "&", a "&" that opens no
\* reference and a "<" are errors, every other character stands for itself
RECURSIVE decode(_)
decode(text) ==
    IF text = <<>> THEN [ok |-> TRUE, value |-> <<>>]
    ELSE IF Head(text) = "<" THEN [ok |-> FALSE, value |-> <<>>]
    ELSE IF Head(text) = "&"
        THEN IF Len(text) >= 5 /\ SubSeq(text, 1, 5) = <<"&", "a", "m", "p", ";">>
                 THEN LET rest == decode(SubSeq(text, 6, Len(text)))
                      IN  [ok |-> rest.ok, value |-> <<"&">> \o rest.value]
                 ELSE [ok |-> FALSE, value |-> <<>>]
    ELSE LET rest == decode(Tail(text))
         IN  [ok |-> rest.ok, value |-> <<Head(text)>> \o rest.value]

\* the text of the element opened by the tag open, up to the next markup,
\* and whether that markup is the element's end tag
element_text(body, open) ==
    LET i == CHOOSE k \in 1 .. Len(body) : body[k] = open
        j == CHOOSE k \in i + 1 .. Len(body) :
                /\ IsMarkup(body[k])
                /\ \A m \in i + 1 .. k - 1 : ~IsMarkup(body[m])
    IN  [text |-> SubSeq(body, i + 1, j - 1), closed |-> body[j] = "</Col>"]

\* the value a parser finds in the column, when the element is well-formed
Column(body, open) ==
    LET t == element_text(body, open)
        d == decode(t.text)
    IN  [ok |-> t.closed /\ d.ok, value |-> d.value]

userId == "<Col id=\"userId\">"
userPass == "<Col id=\"userPass\">"

\* C20: for every pair of credentials, the login body is well-formed and
\* its userId and userPass columns hold exactly config.user_id and
\* config.user_pass.
C20_LoginBodyHoldsCredentials ==
    xml_body # <<>>
        => /\ Column(xml_body, userId).ok
           /\ Column(xml_body, userId).value = config.user_id
           /\ Column(xml_body, userPass).ok
           /\ Column(xml_body, userPass).value = config.user_pass

\* a credential without "&" and "<"
Plain(text) == \A i \in 1 .. Len(text) : text[i] \notin {"&", "<"}

\* what the body does carry: credentials without "&" and "<" arrive as they
\* are
PlainCredentialsArrive ==
    (xml_body # <<>> /\ Plain(config.user_id) /\ Plain(config.user_pass))
        => /\ Column(xml_body, userId) = [ok |-> TRUE, value |-> config.user_id]
           /\ Column(xml_body, userPass) = [ok |-> TRUE, value |-> config.user_pass]

----------------------------------------------------------------------------
\* C21

\* the requests of this run that went to the license endpoint
LicenseRequests == {i \in 1 .. Len(wire) : wire[i].url = license_url}

\* C21: every request to the license endpoint is a GET with exactly twelve
\* query parameters: the ten fixed ones, p_CustomID with the customer_id of
\* the configuration and p_Email with its email; request_license_email sends
\* such a request whenever it is called.
C21_LicenseQueryParameters ==
    /\ \A i \in LicenseRequests :
        /\ wire[i].method = "GET"
        /\ Cardinality(wire[i].params) = 12
        /\ Cardinality({pair[1] : pair \in wire[i].params}) = 12
        /\ wire[i].params =
             { <<"service", "xupservice">>, <<"domain", "NEXTp">>,
               <<"model", "CE_LicenseEMailSend_R01">>, <<"format", "xml">>,
               <<"version", "xplatform">>, <<"p_ConType", "TECH2">>,
               <<"p_Product", "NP14">>, <<"p_Language", "KOR">>,
               <<"p_Merge", "N">>, <<"zip", "false">>,
               <<"p_CustomID", config.customer_id>>,
               <<"p_Email", config.email>> }
    /\ \A i \in 1 .. Len(path) :
        path[i].op = "request_license_email" <=> i \in LicenseRequests

\* a license request was sent for a configuration whose customer id is not
\* its user id
C21_Witness ==
    /\ LicenseRequests # {}
    /\ config.customer_id = <<"c">>
    /\ config.customer_id # config.user_id
    /\ \E i \in LicenseRequests : <<"p_CustomID", <<"c">>>> \in wire[i].params

----------------------------------------------------------------------------
\* C22

\* the category a failure of class cls is reported under
CategoryOf(cls) ==
    CASE cls = "NetworkError" -> "Network error"
      [] cls = "AuthenticationError" -> "Authentication failed"
      [] cls = "LicenseRequestError" -> "License request failed"
      [] OTHER -> "Unexpected error"

\* C22: a run of request_license emits no summary before it returns and
\* exactly one when it has returned: in DONE (True returned) the success
\* summary with user_id, customer_id and email of the configuration, in
\* FAILED (False returned) the failure summary with the message of the
\* exception and its category: "Network error", "Authentication failed",
\* "License request failed" for the three error classes, "Unexpected error"
\* for every other class.
C22_OneSummaryPerRun ==
    /\ ~Returned => summary = <<>>
    /\ Returned => Len(summary) = 1
    /\ pc = "DONE"
        => /\ result = TRUE
           /\ summary[1].success = TRUE
           /\ summary[1].details =
                [user_id |-> config.user_id, customer_id |-> config.customer_id,
                 email |-> config.email]
    /\ pc = "FAILED"
        => /\ result = FALSE
           /\ summary[1].success = FALSE
           /\ summary[1].details =
                [error |-> CategoryOf(exc.cls), message |-> exc.msg]

\* a run that failed at login and reported it as an authentication failure
C22_Witness ==
    /\ pc = "FAILED"
    /\ exc.cls = "AuthenticationError"
    /\ summary =
         << [success |-> FALSE,
             details |-> [error |-> "Authentication failed",
                          message |-> <<"Login failed: Invalid credentials or response">>]] >>

\* a run that succeeded and reported the three identifiers
C22_WitnessSuccess ==
    /\ pc = "DONE"
    /\ Len(summary) = 1
    /\ summary[1].success = TRUE
    /\ summary[1].details.email = config.email

----------------------------------------------------------------------------
\* C23

\* the HTTP call timed out
TimedOut(o) == o.kind = "raise" /\ o.cls \in {"ConnectTimeout", "ReadTimeout"}

\* the run is on its way out of the with-block to FAILED, or there
Failing == pc \in {"RAISED", "UNWINDING", "FAILED"}

\* C23: every request is sent with the request_timeout of the
\* configuration; when the call of a step times out, that step raises
\* NetworkError, the run goes to FAILED and no later request is sent; and a
\* run leaves a position between two steps only by sending the next request:
\* nothing else ends or cancels it.
C23_TimeoutPerCall ==
    /\ [](/\ \A i \in 1 .. Len(wire) : wire[i].timeout = config.request_timeout
          /\ TimedOut(resp.homepage)
                => (Failing /\ exc.cls = "NetworkError" /\ Len(wire) = 1)
          /\ TimedOut(resp.login)
                => (Failing /\ exc.cls = "NetworkError" /\ Len(wire) = 2)
          /\ TimedOut(resp.license)
                => (Failing /\ exc.cls = "NetworkError" /\ Len(wire) = 3)
          /\ (pc = "FAILED" /\ (TimedOut(resp.homepage) \/ TimedOut(resp.login)
                                  \/ TimedOut(resp.license)))
                => (result = FALSE /\ summary[1].details.error = "Network error"))
    /\ [][(pc \in {"START", "SESSION_ESTABLISHED", "AUTHENTICATED"} /\ pc' # pc)
            => (Len(wire') = Len(wire) + 1 /\ Len(calls') = Len(calls) + 1)]_vars

\* a run with a timeout of its own failed on a read timeout at login, after
\* two requests
C23_Witness ==
    /\ pc = "FAILED"
    /\ config.request_timeout = 1
    /\ resp.login = Raised("ReadTimeout")
    /\ Len(wire) = 2
    /\ wire[2].timeout = 1
    /\ exc = Raise("NetworkError", <<"Request timeout during login">>)

----------------------------------------------------------------------------
\* C24

\* C24: no step of a run changes the configuration: not the entry to the
\* with-block, not establish_session, login or request_license_email, not
\* the exit, not the summary, whether the run succeeds or fails.
C24_ConfigReadOnly ==
    /\ [][config' = config]_vars
    /\ [](config \in ManagerConfigs)

\* a failed run and its configuration, which is not the default one
C24_Witness ==
    /\ pc = "FAILED"
    /\ Len(wire) = 3
    /\ Len(summary) = 1
    /\ config = [Config(max_retries) EXCEPT !.customer_id = <<"c">>,
                                            !.email = <<"a", "@", "b">>]

----------------------------------------------------------------------------
\* C25

\* what login makes of its response, whatever was called before
LoginVerdict(o, e) ==
    /\ (HttpSuccess(o) /\ ContainsIgnoreCase(SUCCESS, o.text)) => e = NoExc
    /\ (HttpSuccess(o) /\ ~ContainsIgnoreCase(SUCCESS, o.text))
        => e.cls = "AuthenticationError"
    /\ ~HttpSuccess(o) => e.cls \notin {"none", "AuthenticationError"}

\* what request_license_email makes of its response, whatever was called
\* before
LicenseVerdict(o, e) ==
    /\ (HttpSuccess(o) /\ ContainsIgnoreCase(FAIL, o.text))
        => e.cls = "LicenseRequestError"
    /\ (HttpSuccess(o) /\ ~ContainsIgnoreCase(FAIL, o.text)
                       /\ ContainsIgnoreCase(SUCCESS, o.text)) => e = NoExc
    /\ (HttpSuccess(o) /\ ~ContainsIgnoreCase(FAIL, o.text)
                       /\ ~ContainsIgnoreCase(SUCCESS, o.text))
        => e.cls = "LicenseRequestError"
    /\ ~HttpSuccess(o) => e.cls \notin {"none", "LicenseRequestError"}

\* C25: whichever operations of a SessionManager were called before, and
\* whatever they did, login sends its POST and answers by its own response
\* alone, and request_license_email sends its GET and answers by its own
\* response alone.
C25_OperationsIndependentlyCallable ==
    \A i \in 1 .. Len(path) :
        /\ Len(wire) >= i
        /\ path[i].op = "login"
            => /\ wire[i].method = "POST"
               /\ wire[i].url = config.login_url
               /\ LoginVerdict(resp.login, path[i].exc)
        /\ path[i].op = "request_license_email"
            => /\ wire[i].method = "GET"
               /\ wire[i].url = config.license_url
               /\ LicenseVerdict(resp.license, path[i].exc)
        /\ path[i].op = "establish_session"
            => /\ wire[i].method = "GET"
               /\ wire[i].url = config.homepage_url

\* login was called first, on a session without cookie, and returned
C25_Witness ==
    /\ Len(path) >= 1
    /\ path[1] = [op |-> "login", exc |-> NoExc]
    /\ session.cookies = {}
    /\ resp.homepage = NoCall

\* request_license_email returned after login had failed and
\* establish_session was never called
C25_WitnessAfterFailedLogin ==
    /\ Len(path) = 2
    /\ path[1].op = "login"
    /\ path[1].exc.cls = "AuthenticationError"
    /\ path[2] = [op |-> "request_license_email", exc |-> NoExc]

----------------------------------------------------------------------------
\* C26

\* the requests of this run that went to the login endpoint
LoginRequests == {i \in 1 .. Len(wire) : wire[i].url = config.login_url}

\* the request is a POST with the XML content type whose body starts and
\* ends as the template does
LoginRequestAsTemplate(r) ==
    /\ r.method = "POST"
    /\ <<"Content-Type", "text/xml; charset=UTF-8">> \in r.headers
    /\ Len(r.data) >= Len(login_xml_head) + Len(login_xml_between) + Len(login_xml_tail)
    /\ SubSeq(r.data, 1, Len(login_xml_head)) = login_xml_head
    /\ SubSeq(r.data, Len(r.data) - Len(login_xml_tail) + 1, Len(r.data)) = login_xml_tail

\* C26: a call of login sends exactly one request to login_url: a POST with
\* Content-Type "text/xml; charset=UTF-8" whose body is the template
\* document, with user_id of the configuration as the value of the userId
\* column and user_pass as the value of the userPass column.
C26_LoginRequest ==
    /\ Cardinality(LoginRequests)
         = Cardinality({i \in 1 .. Len(path) : path[i].op = "login"})
    /\ \A i \in LoginRequests :
        /\ path[i].op = "login"
        /\ LoginRequestAsTemplate(wire[i])
        /\ Column(wire[i].data, userId) = [ok |-> TRUE, value |-> config.user_id]
        /\ Column(wire[i].data, userPass) = [ok |-> TRUE, value |-> config.user_pass]

\* what does hold: one POST per call, with the header and the template, and
\* between the tags of each column the text of the configuration as it is
LoginRequestCarriesRawText ==
    /\ Cardinality(LoginRequests)
         = Cardinality({i \in 1 .. Len(path) : path[i].op = "login"})
    /\ \A i \in LoginRequests :
        /\ path[i].op = "login"
        /\ LoginRequestAsTemplate(wire[i])
        /\ wire[i].data = login_xml_head \o config.user_id \o login_xml_between
                            \o config.user_pass \o login_xml_tail

----------------------------------------------------------------------------
\* C27

\* the server answered with an HTTP error status
ErrorStatus(o) == o.kind = "response" /\ o.status >= 400

\* C27: a login or license response with an HTTP error status makes its
\* step fail with NetworkError, whatever the body: the run does not go on,
\* does not return True, and reports neither AuthenticationError nor
\* LicenseRequestError.
C27_StatusBeforeBody ==
    /\ ErrorStatus(resp.login)
        => /\ exc.cls = "NetworkError"
           /\ ~Visited("AUTHENTICATED")
           /\ resp.license = NoCall
           /\ Returned => (pc = "FAILED" /\ result = FALSE)
    /\ ErrorStatus(resp.license)
        => /\ exc.cls = "NetworkError"
           /\ ~Visited("LICENSE_REQUESTED")
           /\ Returned => (pc = "FAILED" /\ result = FALSE)

\* a run failed with NetworkError on a login response of status 500 whose
\* body says SUCCESS
C27_Witness ==
    /\ pc = "FAILED"
    /\ resp.login = Response(500, SUCCESS, {})
    /\ exc.cls = "NetworkError"

\* a run failed with NetworkError on a license response of status 500 whose
\* body says FAIL
C27_WitnessLicense ==
    /\ pc = "FAILED"
    /\ resp.license = Response(500, FAIL, {})
    /\ exc.cls = "NetworkError"

----------------------------------------------------------------------------
\* C28

\* C28: a license response of HTTP success whose body contains "fail" in
\* any letter case is the FAIL case: LicenseRequestError with the message
\* "License request failed" and nothing after it, also when the body
\* contains "success" in any letter case; a body with "success" in any
\* letter case and no "fail" is a success.
C28_LicenseMarkersAnyCase ==
    /\ (HttpSuccess(resp.license) /\ ContainsIgnoreCase(FAIL, resp.license.text))
        => /\ exc = Raise("LicenseRequestError", <<"License request failed">>)
           /\ ~CarriesUnknownResponse(exc.msg)
           /\ ~Visited("LICENSE_REQUESTED")
    /\ (HttpSuccess(resp.license) /\ ~ContainsIgnoreCase(FAIL, resp.license.text)
                                  /\ ContainsIgnoreCase(SUCCESS, resp.license.text))
        => /\ exc = NoExc
           /\ Visited("LICENSE_REQUESTED")

\* the license body "Succfail": lower-case "fail" right after other letters
C28_Witness ==
    /\ pc = "FAILED"
    /\ resp.license = Response(200, <<"S", "u", "c", "c", "f", "a", "i", "l">>, {})
    /\ exc = Raise("LicenseRequestError", <<"License request failed">>)

\* the license body "failSUCCESS": lower-case "fail" and "SUCCESS" together
C28_WitnessBothMarkers ==
    /\ pc = "FAILED"
    /\ resp.license = Response(200, <<"f", "a", "i", "l">> \o SUCCESS, {})
    /\ exc = Raise("LicenseRequestError", <<"License request failed">>)

----------------------------------------------------------------------------
\* C29

\* C29: every call of request_license works on a session of its own: while
\* the call is inside the with-block its session is open, the session holds
\* the cookies of this call's homepage response and no others, the session
\* of the call before stays closed, and what the call returns is decided by
\* its own three responses, whatever the call before returned.
C29_FreshSessionPerCall ==
    /\ [](current >= 1 => RunIsItsOwn(own_state))
    /\ [](current >= 2 => (other.session.closed /\ other.pc \in {"DONE", "FAILED"}))
    /\ [][pc' = "START"
            => (session' = [closed |-> FALSE, cookies |-> {}] /\ session.closed)]_vars

\* the second call succeeded on a session without cookie, after a first call
\* that got a cookie and failed
C29_Witness ==
    /\ current = 2
    /\ pc = "DONE"
    /\ result = TRUE
    /\ session.cookies = {}
    /\ other.pc = "FAILED"
    /\ other.session = [closed |-> TRUE, cookies |-> {"JSESSIONID"}]

----------------------------------------------------------------------------
\* C30

\* the required variables that are set to the empty string
EmptyInputs ==
    {var \in {"NEXACRO_USER_ID", "NEXACRO_USER_PASS", "NEXACRO_EMAIL"} :
        env[var].set /\ env[var].value = <<>>}

\* C30: when a required variable is set to the empty string, from_env
\* raises, names the variable in its message, and raises the very error it
\* raises when the variable is not set at all; a Config that from_env
\* returned has a non-empty user_id, user_pass and email.
C30_EmptyIsMissing ==
    /\ (EmptyInputs # {} /\ mainpc # "from_env")
        => /\ mainpc = "from_env_raised"
           /\ raised.cls = "ValueError"
           /\ \A var \in EmptyInputs :
                /\ Named(var)
                /\ raised = from_env([env EXCEPT ![var] = Unset]).exc
    /\ (mainpc \in {"loaded", "valid", "invalid"} /\ env # NoEnv)
        => /\ config.user_id # <<>>
           /\ config.user_pass # <<>>
           /\ config.email # <<>>

\* from_env failed on an environment whose only fault is an empty password
C30_Witness ==
    /\ mainpc = "from_env_raised"
    /\ env.NEXACRO_USER_ID = SetTo(<<"u">>)
    /\ env.NEXACRO_USER_PASS = SetTo(<<>>)
    /\ env.NEXACRO_EMAIL = SetTo(<<"a", "@">>)
    /\ raised = Raise("ValueError",
                      <<"Missing required environment variables: ",
                        "NEXACRO_USER_PASS">>)

----------------------------------------------------------------------------
\* C31

\* the handlers of the given class on the shared logger
HandlersOf(class) ==
    { i \in 1 .. Len(logger.handlers) : logger.handlers[i] = class }

\* constructor t is between the first and the last statement of _setup_logger
InSetup(t) ==
    setup[t] \in {"create_handlers", "if", "add_file_handler",
                  "add_console_handler", "return"}

\* a constructor of the process has finished
SomeConstructed == \E t \in Constructors : setup[t] = "constructed"

\* no two constructors are inside _setup_logger at once
OneAtATime ==
    \A t \in Constructors, u \in Constructors :
        (InSetup(t) /\ InSetup(u)) => t = u

\* C31: Logger handlers are never duplicated: whatever number of requesters
\* the process has constructed, the shared logger holds at most one file
\* handler and at most one console handler, and once a constructor has
\* finished it holds exactly the two handlers of the first construction, so
\* that each log event is written once per sink.
C31_HandlersNeverDuplicated ==
    /\ Cardinality(HandlersOf("FileHandler")) <= 1
    /\ Cardinality(HandlersOf("StreamHandler")) <= 1
    /\ SomeConstructed => logger.handlers = <<"FileHandler", "StreamHandler">>

\* where C31 fails: every constructor has finished and the logger holds the
\* handlers of more than one of them
DuplicatedHandlers ==
    /\ \A t \in Constructors : setup[t] = "constructed"
    /\ Len(logger.handlers) > 2

\* what does hold: as long as constructors run one at a time, the logger
\* holds the two handlers of the first construction only
HandlersOnceInSequence == ([]OneAtATime) => []C31_HandlersNeverDuplicated

\* the same for the constructions of SpecTwo, each of which is one step
HandlersOnceWhenAtomic ==
    /\ logger.users = {} => logger.handlers = <<>>
    /\ logger.users # {} => logger.handlers = <<"FileHandler", "StreamHandler">>

\* every constructor has finished, one after the other, and the logger holds
\* one file handler and one console handler
AllConstructedOnce ==
    /\ \A t \in Constructors : setup[t] = "constructed"
    /\ logger.handlers = <<"FileHandler", "StreamHandler">>

====
